---- MODULE Spec2Model ----
(***************************************************************************)
(* custom-ls: a decorated directory listing (src/src/main.rs).             *)
(*                                                                         *)
(* Text is modelled as a sequence of one-character strings, so that        *)
(* lengths, lower-casing, splitting and comparison are computed the way    *)
(* the program computes them.  A glyph is the sequence of its code points, *)
(* each written "U+XXXX".  A byte count (u64) is a little-endian sequence  *)
(* of seven base-1024 digits, because the values of interest (1024^4 and   *)
(* above) do not fit the model checker's 32-bit integers.                  *)
(***************************************************************************)
EXTENDS Integers, Sequences, FiniteSets, TLC

VARIABLES
    args,          \* env::args(): program name followed by the arguments
    dir_entries,   \* what fs::read_dir enumerates for the target, in order
    read_dir_ok,   \* whether fs::read_dir(path) returns Ok
    pc,            \* position of main: "main", "scan", "print", "exited"
    iter,          \* entries the read_dir iterator has not yielded yet
    files,         \* Vec<FileInfo> of extract_files_from_path
    directories,   \* Vec<FileInfo>
    executables,   \* Vec<FileInfo>
    stdout,        \* rows flushed to standard output
    stderr,        \* lines written to standard error
    exit_code,     \* process exit status, -1 while running
    ran,           \* which of the scanner and the renderer have been entered
    hs_in,         \* human_readable_size: the argument `size: u64`
    hs_size,       \* human_readable_size: the local `size: f64`
    hs_unit,       \* human_readable_size: the local `unit`
    hs_pc,         \* human_readable_size: "call", "loop", "done"
    hs_out,        \* human_readable_size: the returned String
    em_name,       \* get_file_emoji: the argument `file_name`
    em_pc,         \* get_file_emoji: "call", "done"
    em_out         \* get_file_emoji: the returned glyph

main_vars == <<args, dir_entries, read_dir_ok, pc, iter, files, directories,
               executables, stdout, stderr, exit_code, ran>>
hs_vars == <<hs_in, hs_size, hs_unit, hs_pc, hs_out>>
em_vars == <<em_name, em_pc, em_out>>
vars == <<main_vars, hs_vars, em_vars>>

----------------------------------------------------------------------------
(* Text *)

Uppers == <<"A","B","C","D","E","F","G","H","I","J","K","L","M",
            "N","O","P","Q","R","S","T","U","V","W","X","Y","Z">>
Lowers == <<"a","b","c","d","e","f","g","h","i","j","k","l","m",
            "n","o","p","q","r","s","t","u","v","w","x","y","z">>
DigitChars == <<"0","1","2","3","4","5","6","7","8","9">>

IndexIn(s, c) == CHOOSE i \in 1..Len(s) : s[i] = c
IsIn(s, c) == \E i \in 1..Len(s) : s[i] = c

\* The byte value of an ASCII character; "<FF>" is a byte that is not UTF-8.
Byte(c) ==
    IF IsIn(Uppers, c) THEN 64 + IndexIn(Uppers, c)
    ELSE IF IsIn(Lowers, c) THEN 96 + IndexIn(Lowers, c)
    ELSE IF IsIn(DigitChars, c) THEN 47 + IndexIn(DigitChars, c)
    ELSE IF c = " " THEN 32
    ELSE IF c = "-" THEN 45
    ELSE IF c = "." THEN 46
    ELSE IF c = "/" THEN 47
    ELSE IF c = ":" THEN 58
    ELSE IF c = "_" THEN 95
    ELSE 255

\* char::to_lowercase on ASCII
LowerChar(c) == IF IsIn(Uppers, c) THEN Lowers[IndexIn(Uppers, c)] ELSE c

\* str::to_lowercase
to_lowercase(s) == [i \in 1..Len(s) |-> LowerChar(s[i])]

\* Ord for str: lexicographic by bytes, a proper prefix first.
RECURSIVE StrLess(_, _)
StrLess(a, b) ==
    IF b = <<>> THEN FALSE
    ELSE IF a = <<>> THEN TRUE
    ELSE IF Byte(Head(a)) # Byte(Head(b)) THEN Byte(Head(a)) < Byte(Head(b))
    ELSE StrLess(Tail(a), Tail(b))

\* std::iter::repeat('-').take(n).collect()
Dashes(n) == [i \in 1..n |-> "-"]

\* The decimal digits of a natural number.
RECURSIVE Decimal(_)
Decimal(n) ==
    IF n < 10 THEN <<DigitChars[n + 1]>>
    ELSE Append(Decimal(n \div 10), DigitChars[(n % 10) + 1])

\* {:0w$}: decimal, zero-padded on the left to width w.
RECURSIVE Padded(_, _)
Padded(n, w) ==
    IF Len(Decimal(n)) >= w THEN Decimal(n)
    ELSE <<"0">> \o Padded(n, w - 1)

Min(a, b) == IF a < b THEN a ELSE b

----------------------------------------------------------------------------
(* human_readable_size *)

\* A u64 has 64 bits: six base-1024 digits and a seventh below 16.
NumDigits == 7
Radix == 1024
units == <<<<"B">>, <<"K","B">>, <<"M","B">>, <<"G","B">>, <<"T","B">>>>

ZeroDigits == [i \in 1..NumDigits |-> 0]

\* Index of the most significant non-zero digit, 0 for the number zero.
TopDigit(d) ==
    IF \A i \in 1..Len(d) : d[i] = 0 THEN 0
    ELSE CHOOSE i \in 1..Len(d) : d[i] # 0 /\ \A j \in (i+1)..Len(d) : d[j] = 0

RECURSIVE BitLen(_)
BitLen(x) == IF x = 0 THEN 0 ELSE 1 + BitLen(x \div 2)

\* d + c * Radix^(i-1), carrying upwards
RECURSIVE AddAt(_, _, _)
AddAt(d, i, c) ==
    IF c = 0 \/ i > Len(d) THEN d
    ELSE AddAt([d EXCEPT ![i] = (d[i] + c) % Radix], i + 1, (d[i] + c) \div Radix)

\* `size as f64`: exact up to 53 significant bits, otherwise rounded to the
\* nearest value with a 53-bit significand, ties to even.  The value is kept
\* as [digits, exp], standing for digits / 1024^exp.
AsF64(d) ==
    LET top == TopDigit(d)
        bits == IF top = 0 THEN 0 ELSE 10 * (top - 1) + BitLen(d[top])
    IN  IF bits <= 53 THEN [digits |-> d, exp |-> 0]
        ELSE LET s == bits - 53
                 low == d[1] + Radix * d[2]
                 r == low % (2 ^ s)
                 q == low \div (2 ^ s)
                 up == r > 2 ^ (s - 1) \/ (r = 2 ^ (s - 1) /\ q % 2 = 1)
                 kept == low - r
                 cleared == [d EXCEPT ![1] = kept % Radix,
                                      ![2] = kept \div Radix]
                 \* the top digit is below 16, so the carry stays inside it
                 rounded == IF up THEN AddAt(cleared, 1, 2 ^ s) ELSE cleared
             IN  [digits |-> rounded, exp |-> 0]

\* size >= 1024.0
AtLeast1024(size) ==
    \E i \in (size.exp + 2)..Len(size.digits) : size.digits[i] # 0

\* the `while` condition: size >= 1024.0 && unit < units.len() - 1
LoopCondStrict(size, unit) ==
    /\ AtLeast1024(size)
    /\ \/ TopDigit(size.digits) > size.exp + 2
       \/ \E i \in 1..(size.exp + 1) : size.digits[i] # 0
       \/ size.digits[size.exp + 2] > 1
    /\ unit < Len(units) - 1
LoopCond(size, unit) == AtLeast1024(size) /\ unit < Len(units) - 1

\* size /= 1024.0 (exact: a power of two, no underflow in this range)
Divide(size) == [size EXCEPT !.exp = @ + 1]

\* The integer part of size.
RECURSIVE Whole(_, _)
Whole(size, i) ==
    IF i > Len(size.digits) THEN 0
    ELSE size.digits[i] + Radix * Whole(size, i + 1)

\* 100 * fraction of size, as [carry, rest]: carry is its integer part and
\* rest the digits of what remains, least significant first.
RECURSIVE Times100(_, _, _)
Times100(frac, i, carry) ==
    IF i > Len(frac) THEN [carry |-> carry, rest |-> <<>>]
    ELSE LET t == frac[i] * 100 + carry
             up == Times100(frac, i + 1, t \div Radix)
         IN  [carry |-> up.carry, rest |-> <<t % Radix>> \o up.rest]

\* format!("{:.2} {}", size, units[unit]): two decimals, round half to even
Format(size, unit) ==
    LET frac == SubSeq(size.digits, 1, size.exp)
        m == Times100(frac, 1, 0)
        n == Len(m.rest)
        above == n > 0 /\ (m.rest[n] > 512 \/
                   (m.rest[n] = 512 /\ \E i \in 1..(n-1) : m.rest[i] # 0))
        tie == n > 0 /\ m.rest[n] = 512 /\ \A i \in 1..(n-1) : m.rest[i] = 0
        hundredths == IF above \/ (tie /\ m.carry % 2 = 1)
                      THEN m.carry + 1 ELSE m.carry
        whole == Whole(size, size.exp + 1) + (hundredths \div 100)
    IN  Decimal(whole) \o <<".">> \o Padded(hundredths % 100, 2)
            \o <<" ">> \o units[unit + 1]

RECURSIVE DivideLoop(_, _)
DivideLoop(size, unit) ==
    IF LoopCond(size, unit) THEN DivideLoop(Divide(size), unit + 1)
    ELSE [size |-> size, unit |-> unit]

human_readable_size(n) ==
    LET end == DivideLoop(AsF64(n), 0) IN Format(end.size, end.unit)

----------------------------------------------------------------------------
(* get_file_emoji *)

DefaultGlyph == <<"U+1F4C4">>
FolderGlyph == <<"U+1F4C1">>
BoltGlyph == <<"U+26A1">>

emoji_map == {
    << <<"t","x","t">>,     <<"U+1F4DD">> >>,
    << <<"m","d">>,         <<"U+2B07","U+FE0F">> >>,
    << <<"r","s">>,         <<"U+1F980">> >>,
    << <<"r","b">>,         <<"U+1F48E">> >>,
    << <<"g","o">>,         <<"U+1F439">> >>,
    << <<"p","y">>,         <<"U+1F40D">> >>,
    << <<"j","a","v","a">>, <<"U+2615">> >>,
    << <<"z","i","g">>,     <<"U+26A1">> >>,
    << <<"c">>,             <<"U+1F4BE">> >>,
    << <<"c","p","p">>,     <<"U+1F4BE">> >>,
    << <<"j","s">>,         <<"U+1F4DC">> >>,
    << <<"h","t","m","l">>, <<"U+1F310">> >>,
    << <<"c","s","s">>,     <<"U+1F3A8">> >>,
    << <<"j","s","o","n">>, <<"U+1F4D1">> >>,
    << <<"c","s","v">>,     <<"U+1F4CA">> >>,
    << <<"m","p","3">>,     <<"U+1F3B5">> >>,
    << <<"w","a","v">>,     <<"U+1F3B5">> >>,
    << <<"m","p","4">>,     <<"U+1F3AC">> >>,
    << <<"p","n","g">>,     <<"U+1F5BC","U+FE0F">> >>,
    << <<"j","p","g">>,     <<"U+1F4F7">> >>,
    << <<"j","p","e","g">>, <<"U+1F4F7">> >>,
    << <<"g","i","f">>,     <<"U+1F39E","U+FE0F">> >>,
    << <<"z","i","p">>,     <<"U+1F4E6">> >>,
    << <<"j","a","r">>,     <<"U+1F4E6">> >>,
    << <<"t","a","r">>,     <<"U+1F4E6">> >>,
    << <<"p","d","f">>,     <<"U+1F4D5">> >> }

\* emoji_map.get(key).unwrap_or(&default)
MapGetOr(key, default) ==
    IF \E p \in emoji_map : p[1] = key
    THEN (CHOOSE p \in emoji_map : p[1] = key)[2]
    ELSE default

\* str::rsplit_once('.'): [found, before, after] around the last '.'
RECURSIVE rsplit_once(_, _)
rsplit_once(s, i) ==
    IF i = 0 THEN [found |-> FALSE, before |-> <<>>, after |-> <<>>]
    ELSE IF s[i] = "." THEN [found |-> TRUE, before |-> SubSeq(s, 1, i - 1),
                             after |-> SubSeq(s, i + 1, Len(s))]
    ELSE rsplit_once(s, i - 1)

\* .rsplit_once('.').map(|(_, ext)| ext.to_lowercase()).unwrap_or(String::new())
ExtensionExact(file_name) ==
    LET sp == rsplit_once(file_name, Len(file_name))
    IN  IF sp.found THEN sp.after ELSE <<>>
Extension(file_name) ==
    LET sp == rsplit_once(file_name, Len(file_name))
    IN  IF sp.found THEN to_lowercase(sp.after) ELSE <<>>

get_file_emoji(file_name) == MapGetOr(Extension(file_name), DefaultGlyph)

----------------------------------------------------------------------------
(* Each of main, human_readable_size and get_file_emoji at rest *)

MainIdle ==
    /\ args = <<>> /\ dir_entries = <<>> /\ read_dir_ok = TRUE
    /\ pc = "idle" /\ iter = <<>>
    /\ files = <<>> /\ directories = <<>> /\ executables = <<>>
    /\ stdout = <<>> /\ stderr = <<>> /\ exit_code = -1 /\ ran = {}

SizeIdle ==
    /\ hs_in = ZeroDigits /\ hs_size = [digits |-> ZeroDigits, exp |-> 0]
    /\ hs_unit = 0 /\ hs_pc = "idle" /\ hs_out = <<>>

EmojiIdle == em_name = <<>> /\ em_pc = "idle" /\ em_out = <<>>

----------------------------------------------------------------------------
(* Path resolution: the file system as main sees it *)

\* Path::canonicalize: the absolute path, or an error when nothing is there.
\* "link" is a symbolic link to the directory docs, "flink" one to notes.txt,
\* "dangling" one to nothing.
canonicalize(p) ==
    CASE p = "."         -> [ok |-> TRUE,  path |-> "/home/user"]
      [] p = "docs"      -> [ok |-> TRUE,  path |-> "/home/user/docs"]
      [] p = "link"      -> [ok |-> TRUE,  path |-> "/home/user/docs"]
      [] p = "notes.txt" -> [ok |-> TRUE,  path |-> "/home/user/notes.txt"]
      [] p = "flink"     -> [ok |-> TRUE,  path |-> "/home/user/notes.txt"]
      [] OTHER           -> [ok |-> FALSE, path |-> ""]

\* Path::is_dir on a canonical path
is_dir(path) == path \in {"/home/user", "/home/user/docs"}

\* let dir_path = if args.len() > 1 { &args[1] } else { "." };
DirPath(a) == IF Len(a) > 1 THEN a[2] ELSE "."

\* eprintln!("... Error: '{}' is not a directory.", dir_path)
NotADirectoryLineSameWording(dir_path) ==
    <<"U+274C Error: Directory '", dir_path, "' does not exist.">>
NotADirectoryLine(dir_path) ==
    <<"U+274C Error: '", dir_path, "' is not a directory.">>

\* eprintln!("... Error: Directory '{}' does not exist.", dir_path)
DoesNotExistLine(dir_path) ==
    <<"U+274C Error: Directory '", dir_path, "' does not exist.">>

\* What the runtime writes for a panic of the main thread.
PanicLine(what) == <<"thread 'main' panicked: ", what>>

ExitSuccess == 0
ExitPanic == 101

----------------------------------------------------------------------------
(* extract_files_from_path *)

\* st_mode: the file type bits and the permission bits
S_IFMT == 61440     \* 0o170000
S_IFDIR == 16384    \* 0o040000
S_IFREG == 32768    \* 0o100000
AnyExecuteBit == 73 \* 0o111

RECURSIVE BitAnd(_, _)
BitAnd(a, b) ==
    IF a = 0 \/ b = 0 THEN 0
    ELSE (a % 2) * (b % 2) + 2 * BitAnd(a \div 2, b \div 2)

\* file_type.is_dir(), file_type.is_file()
ft_is_dir(mode) == BitAnd(mode, S_IFMT) = S_IFDIR
ft_is_file(mode) == BitAnd(mode, S_IFMT) = S_IFREG

\* metadata.permissions().mode() & 0o111 != 0
\* (the owner's bit alone, 0o100)
HasExecuteBitOwnerOnly(mode) == BitAnd(mode, 64) # 0
HasExecuteBit(mode) == BitAnd(mode, AnyExecuteBit) # 0

\* The if / else if chain that picks the vector an entry is pushed to.
CategorizeFallbackFile(mode) ==
    IF ft_is_dir(mode) THEN "directories"
    ELSE IF ft_is_file(mode) /\ HasExecuteBit(mode) THEN "executables"
    ELSE "files"
Categorize(mode) ==
    IF ft_is_dir(mode) THEN "directories"
    ELSE IF ft_is_file(mode) THEN
        IF HasExecuteBit(mode) THEN "executables" ELSE "files"
    ELSE "none"

\* datetime.format("%Y-%m-%d %H:%M:%S") of UNIX_EPOCH + secs, in UTC
FormatTime(secs) ==
    LET days == secs \div 86400
        rem == secs % 86400
        z == days + 719468
        era == z \div 146097
        doe == z - era * 146097
        yoe == (doe - doe \div 1460 + doe \div 36524 - doe \div 146096) \div 365
        doy == doe - (365 * yoe + yoe \div 4 - yoe \div 100)
        mp == (5 * doy + 2) \div 153
        d == doy - (153 * mp + 2) \div 5 + 1
        m == IF mp < 10 THEN mp + 3 ELSE mp - 9
        y == yoe + era * 400 + (IF m <= 2 THEN 1 ELSE 0)
    IN  Padded(y, 4) \o <<"-">> \o Padded(m, 2) \o <<"-">> \o Padded(d, 2)
          \o <<" ">> \o Padded(rem \div 3600, 2) \o <<":">>
          \o Padded((rem % 3600) \div 60, 2) \o <<":">> \o Padded(rem % 60, 2)

\* OsString::into_string succeeds when the bytes are UTF-8.
IsUtf8(name) == \A i \in 1..Len(name) : name[i] # "<FF>"

\* One iteration of `for entry in entries`: what becomes of the entry.
\*   "panic"    an unwrap() failed
\*   "continue" nothing is pushed
\*   otherwise  the vector the FileInfo is pushed to
LoopBody(e) ==
    IF e.io # "ok" THEN [to |-> "continue"]
    ELSE IF e.meta # "ok" THEN [to |-> "panic", what |-> "metadata"]
    ELSE IF ~IsUtf8(e.name) THEN [to |-> "panic", what |-> "into_string"]
    ELSE IF e.name = <<".">> \/ e.name = <<".", ".">> THEN [to |-> "continue"]
    ELSE IF e.mtime.kind = "unsupported" THEN [to |-> "continue"]
    ELSE IF e.mtime.kind = "before_epoch"
         THEN [to |-> "panic", what |-> "duration_since"]
    ELSE IF Categorize(e.mode) = "none" THEN [to |-> "continue"]
    ELSE [to |-> Categorize(e.mode),
          info |-> [name |-> e.name,
                    readable_size |-> human_readable_size(e.len),
                    modified_at |-> FormatTime(e.mtime.secs)]]

\* The comparator of the three sort_by calls.
NameLessBytewise(a, b) == StrLess(a.name, b.name)
NameLess(a, b) == StrLess(to_lowercase(a.name), to_lowercase(b.name))

\* sort_by is stable: an element goes before the first one it is less than.
InsertSorted(s, x) ==
    IF \E i \in 1..Len(s) : NameLess(x, s[i])
    THEN LET i == CHOOSE j \in 1..Len(s) :
                     NameLess(x, s[j]) /\ \A k \in 1..(j - 1) : ~NameLess(x, s[k])
         IN  SubSeq(s, 1, i - 1) \o <<x>> \o SubSeq(s, i, Len(s))
    ELSE Append(s, x)

RECURSIVE sort_by(_)
sort_by(v) ==
    IF v = <<>> THEN <<>>
    ELSE InsertSorted(sort_by(SubSeq(v, 1, Len(v) - 1)), v[Len(v)])

----------------------------------------------------------------------------
(* DirContents::print *)

RECURSIVE MaxLen(_, _, _)
MaxLen(v, field, acc) ==
    IF v = <<>> THEN acc
    ELSE MaxLen(Tail(v), field,
                IF Len(Head(v)[field]) > acc THEN Len(Head(v)[field]) ELSE acc)

\* get_longest_field_entries: files, then directories, then executables
get_longest_field_entries(dc) ==
    LET longest(field) ==
            MaxLen(dc.executables, field,
                MaxLen(dc.directories, field, MaxLen(dc.files, field, 0)))
    IN  [max_name_len |-> longest("name"),
         max_size_len |-> longest("readable_size"),
         max_date_len |-> longest("modified_at")]

HeaderRow ==
    [block |-> "header",
     cells |-> << <<"M","o","d","i","f","i","e","d">>, <<"S","i","z","e">>,
                  <<"N","a","m","e">> >>]

SeparatorRow(m) ==
    [block |-> "separator",
     cells |-> << <<"-","-","-">> \o Dashes(m.max_date_len),
                  Dashes(m.max_size_len), Dashes(m.max_name_len) >>]

DirectoryRow(e) ==
    [block |-> "directories",
     cells |-> << FolderGlyph \o <<" ">> \o e.modified_at, e.readable_size,
                  e.name \o <<"/">> >>]

FileRow(e) ==
    [block |-> "files",
     cells |-> << get_file_emoji(e.name) \o <<" ">> \o e.modified_at,
                  e.readable_size, e.name >>]

ExecutableRow(e) ==
    [block |-> "executables",
     cells |-> << BoltGlyph \o <<" ">> \o e.modified_at, e.readable_size,
                  e.name >>]

\* The rows written to the TabWriter, in order; `block` records which part
\* of print wrote the row.
PrintRows(dc) ==
    <<HeaderRow, SeparatorRow(get_longest_field_entries(dc))>>
      \o [i \in 1..Len(dc.directories) |-> DirectoryRow(dc.directories[i])]
      \o [i \in 1..Len(dc.files) |-> FileRow(dc.files[i])]
      \o [i \in 1..Len(dc.executables) |-> ExecutableRow(dc.executables[i])]

----------------------------------------------------------------------------
(* main *)

Digits(a, b, c, d, e, f, g) == <<a, b, c, d, e, f, g>>
Entry(name, mode, len, secs) ==
    [io |-> "ok", meta |-> "ok", name |-> name, mode |-> mode, len |-> len,
     mtime |-> [kind |-> "ok", secs |-> secs]]

\* Directory entries a scan can meet.  A mode is the file type (directory,
\* regular file, symbolic link) plus the permission bits.
EntryPool == {
    Entry(<<"s","r","c">>, 16877, Digits(0,4,0,0,0,0,0), 0),              \* drwxr-xr-x
    Entry(<<"D","o","c","u","m","e","n","t","s">>, 16832,
          Digits(0,4,0,0,0,0,0), 1700000000),                            \* drwx------
    Entry(<<"a">>, 33188, Digits(0,0,0,0,0,0,0), 86399),                  \* -rw-r--r--
    Entry(<<"A">>, 33188, Digits(512,1,0,0,0,0,0), 951782400),            \* -rw-r--r--
    Entry(<<"B",".","T","X","T">>, 33152, Digits(1023,1023,0,0,0,0,0), 1), \* -rw-------
    Entry(<<"r","u","n",".","t","x","t">>, 33261,
          Digits(0,0,0,0,1,0,0), 1709251199),                            \* -rwxr-xr-x
    Entry(<<"g","o",".","r","s">>, 33192, Digits(1,0,0,0,0,0,0), 60),     \* -rw-r-x---
    Entry(<<"l","n","k">>, 41471, Digits(3,0,0,0,0,0,0), 3600),           \* lrwxrwxrwx
    [Entry(<<"g","o","n","e">>, 33188, ZeroDigits, 0) EXCEPT !.meta = "err"],
    Entry(<<"<FF>">>, 33188, ZeroDigits, 0),
    [Entry(<<"o","l","d">>, 33188, ZeroDigits, 0)
        EXCEPT !.mtime = [kind |-> "before_epoch", secs |-> 0]],
    [Entry(<<"n">>, 33188, ZeroDigits, 0)
        EXCEPT !.mtime = [kind |-> "unsupported", secs |-> 0]],
    [Entry(<<>>, 0, ZeroDigits, 0) EXCEPT !.io = "err"] }

\* The most entries a scanned directory holds.
MaxEntries == 3

\* Enumerations of at most MaxEntries entries with distinct names.
Enumerations ==
    UNION {{q \in [1..k -> EntryPool] :
               \A i, j \in 1..k : i # j => q[i].name # q[j].name}
           : k \in 0..MaxEntries}

ArgChoices ==
    { <<"custom-ls">>, <<"custom-ls", "link">>,
      <<"custom-ls", "notes.txt">>, <<"custom-ls", "flink">>,
      <<"custom-ls", "nope">>, <<"custom-ls", "dangling">>,
      <<"custom-ls", "nope", "docs">> }

\* Whether the invocation names a directory.
TargetIsDir(a) ==
    canonicalize(DirPath(a)).ok /\ is_dir(canonicalize(DirPath(a)).path)

Init ==
    /\ SizeIdle /\ EmojiIdle
    /\ args \in ArgChoices
    /\ read_dir_ok \in BOOLEAN
    /\ dir_entries \in Enumerations
    \* only a directory that can be read enumerates anything
    /\ (~TargetIsDir(args) \/ ~read_dir_ok) => dir_entries = <<>>
    \* read_dir is called only on a directory; elsewhere the flag is unused
    /\ TargetIsDir(args) \/ read_dir_ok
    /\ pc = "main" /\ iter = <<>>
    /\ files = <<>> /\ directories = <<>> /\ executables = <<>>
    /\ stdout = <<>> /\ stderr = <<>> /\ exit_code = -1 /\ ran = {}

\* main, the Ok branch with path.is_dir(): extract_files_from_path is entered
\* and fs::read_dir is called.
MainScan ==
    /\ pc = "main"
    /\ canonicalize(DirPath(args)).ok
    /\ is_dir(canonicalize(DirPath(args)).path)
    /\ pc' = "scan"
    /\ ran' = ran \cup {"extract_files_from_path"}
    /\ iter' = IF read_dir_ok THEN dir_entries ELSE <<>>
    /\ UNCHANGED <<args, dir_entries, read_dir_ok, files, directories,
                   executables, stdout, stderr, exit_code, hs_vars, em_vars>>

\* main, the Ok branch with a path that is no directory; main returns.
MainNotADirectory ==
    /\ pc = "main"
    /\ canonicalize(DirPath(args)).ok
    /\ ~is_dir(canonicalize(DirPath(args)).path)
    /\ stderr' = Append(stderr, NotADirectoryLine(DirPath(args)))
    /\ pc' = "exited"
    /\ exit_code' = ExitSuccess
    /\ UNCHANGED <<args, dir_entries, read_dir_ok, iter, files, directories,
                   executables, stdout, ran, hs_vars, em_vars>>

\* main, the Err branch; main returns.
MainDoesNotExist ==
    /\ pc = "main"
    /\ ~canonicalize(DirPath(args)).ok
    /\ stderr' = Append(stderr, DoesNotExistLine(DirPath(args)))
    /\ pc' = "exited"
    /\ exit_code' = ExitSuccess
    /\ UNCHANGED <<args, dir_entries, read_dir_ok, iter, files, directories,
                   executables, stdout, ran, hs_vars, em_vars>>

\* One iteration of the loop over the entries.
ScanEntry ==
    /\ pc = "scan"
    /\ iter # <<>>
    /\ LET r == LoopBody(Head(iter)) IN
        /\ iter' = Tail(iter)
        /\ files' = IF r.to = "files" THEN Append(files, r.info) ELSE files
        /\ directories' = IF r.to = "directories"
                          THEN Append(directories, r.info) ELSE directories
        /\ executables' = IF r.to = "executables"
                          THEN Append(executables, r.info) ELSE executables
        /\ pc' = IF r.to = "panic" THEN "exited" ELSE "scan"
        /\ exit_code' = IF r.to = "panic" THEN ExitPanic ELSE exit_code
        /\ stderr' = IF r.to = "panic" THEN Append(stderr, PanicLine(r.what))
                     ELSE stderr
    /\ UNCHANGED <<args, dir_entries, read_dir_ok, stdout, ran, hs_vars, em_vars>>

\* The loop is over (or read_dir failed): the three vectors are sorted and
\* returned to main.
ScanReturn ==
    /\ pc = "scan"
    /\ iter = <<>>
    /\ files' = sort_by(files)
    /\ directories' = sort_by(directories)
    /\ executables' = sort_by(executables)
    /\ pc' = "print"
    /\ UNCHANGED <<args, dir_entries, read_dir_ok, iter, stdout, stderr,
                   exit_code, ran, hs_vars, em_vars>>

\* dir_contents.print(), then main returns.
PrintTable ==
    /\ pc = "print"
    /\ ran' = ran \cup {"print"}
    /\ stdout' = stdout \o PrintRows([files |-> files, directories |-> directories,
                                      executables |-> executables])
    /\ pc' = "exited"
    /\ exit_code' = ExitSuccess
    /\ UNCHANGED <<args, dir_entries, read_dir_ok, iter, files, directories,
                   executables, stderr, hs_vars, em_vars>>

Next ==
    \/ MainScan
    \/ MainNotADirectory
    \/ MainDoesNotExist
    \/ ScanEntry
    \/ ScanReturn
    \/ PrintTable

Spec == Init /\ [][Next]_vars

\* extract_files_from_path as one function of what read_dir enumerates:
\* the loop over the entries, then the three sorts.  `panicked` tells that an
\* unwrap() ended the program inside the loop.
RECURSIVE ScanLoop(_, _)
ScanLoop(entries, dc) ==
    IF entries = <<>> THEN [panicked |-> FALSE, dc |-> dc]
    ELSE LET r == LoopBody(Head(entries)) IN
         IF r.to = "panic" THEN [panicked |-> TRUE, dc |-> dc]
         ELSE IF r.to = "continue" THEN ScanLoop(Tail(entries), dc)
         ELSE ScanLoop(Tail(entries), [dc EXCEPT ![r.to] = Append(@, r.info)])

extract_files_from_path(entries) ==
    LET r == ScanLoop(entries, [files |-> <<>>, directories |-> <<>>,
                                executables |-> <<>>])
    IN  [panicked |-> r.panicked,
         dc |-> [files |-> sort_by(r.dc.files),
                 directories |-> sort_by(r.dc.directories),
                 executables |-> sort_by(r.dc.executables)]]

----------------------------------------------------------------------------
(* The two pure functions on their own: each is run on an input drawn in   *)
(* the initial state, while main stands idle.                              *)

\* Byte counts tried: every digit at its smallest, largest and middle values.
SizeDigitChoices == {0, 1, 512, 1023}
SizeTopChoices == {0, 1, 15}
SizeInputs ==
    {d \in [1..NumDigits -> SizeDigitChoices \cup SizeTopChoices] :
        /\ d[NumDigits] \in SizeTopChoices
        /\ \A i \in 1..(NumDigits - 1) : d[i] \in SizeDigitChoices}

SizeInit ==
    /\ MainIdle /\ EmojiIdle
    /\ hs_in \in SizeInputs
    /\ hs_size = [digits |-> ZeroDigits, exp |-> 0]
    /\ hs_unit = 0 /\ hs_pc = "call" /\ hs_out = <<>>

\* let mut size = size as f64; let mut unit = 0;
HrsEnter ==
    /\ hs_pc = "call"
    /\ hs_size' = AsF64(hs_in)
    /\ hs_unit' = 0
    /\ hs_pc' = "loop"
    /\ UNCHANGED <<hs_in, hs_out, main_vars, em_vars>>

\* one iteration of the while loop
HrsDivide ==
    /\ hs_pc = "loop"
    /\ LoopCond(hs_size, hs_unit)
    /\ hs_size' = Divide(hs_size)
    /\ hs_unit' = hs_unit + 1
    /\ UNCHANGED <<hs_in, hs_pc, hs_out, main_vars, em_vars>>

\* the loop is left and the string is built
HrsFormat ==
    /\ hs_pc = "loop"
    /\ ~LoopCond(hs_size, hs_unit)
    /\ hs_out' = Format(hs_size, hs_unit)
    /\ hs_pc' = "done"
    /\ UNCHANGED <<hs_in, hs_size, hs_unit, main_vars, em_vars>>

SizeNext == HrsEnter \/ HrsDivide \/ HrsFormat
SizeSpec == SizeInit /\ [][SizeNext]_vars

\* File names tried by get_file_emoji alone.
MaxNameLen == 4
EmojiAlphabet == {".", "c", "C", "s"}
EmojiNames == UNION {[1..k -> EmojiAlphabet] : k \in 0..MaxNameLen}

EmojiInit ==
    /\ MainIdle /\ SizeIdle
    /\ em_name \in EmojiNames
    /\ em_pc = "call" /\ em_out = <<>>

EmojiCall ==
    /\ em_pc = "call"
    /\ em_out' = get_file_emoji(em_name)
    /\ em_pc' = "done"
    /\ UNCHANGED <<em_name, main_vars, hs_vars>>

EmojiNext == EmojiCall
EmojiSpec == EmojiInit /\ [][EmojiNext]_vars

----------------------------------------------------------------------------
(* Properties of human_readable_size *)

\* The largest k with 1024^k <= n, and 0 for n < 1024.
LargestPower(n) ==
    IF \A i \in 1..Len(n) : n[i] = 0 THEN 0
    ELSE CHOOSE k \in 0..(Len(n) - 1) :
            n[k + 1] # 0 /\ \A j \in (k + 2)..Len(n) : n[j] = 0

\* The unit printed: what follows the blank.
UnitOf(text) ==
    LET i == CHOOSE j \in 1..Len(text) : text[j] = " "
    IN  SubSeq(text, i + 1, Len(text))

Bytes(a, b, c, d, e, f, g) == <<a, b, c, d, e, f, g>>

\* C7: for every byte count n the unit printed is units[min(4, k)], k the
\* largest integer with 1024^k <= n (0 below 1024); the loop divides at most
\* 4 times; 0 is printed in B, 1024 and 1536 in KB, 1024^4 in TB.
C7_UnitIsLargestBelow1024 ==
    /\ hs_unit <= 4
    /\ hs_pc = "done" =>
        /\ hs_unit = Min(4, LargestPower(hs_in))
        /\ UnitOf(hs_out) = units[Min(4, LargestPower(hs_in)) + 1]
        /\ hs_in = Bytes(0,0,0,0,0,0,0) => hs_out = <<"0",".","0","0"," ","B">>
        /\ hs_in = Bytes(0,1,0,0,0,0,0) => hs_out = <<"1",".","0","0"," ","K","B">>
        /\ hs_in = Bytes(512,1,0,0,0,0,0) => hs_out = <<"1",".","5","0"," ","K","B">>
        /\ hs_in = Bytes(0,0,0,0,1,0,0) => hs_out = <<"1",".","0","0"," ","T","B">>

\* A count of 1024^6 or more has been formatted, and it is printed in TB.
C7_Witness ==
    /\ hs_pc = "done"
    /\ LargestPower(hs_in) = 6
    /\ hs_unit = 4
    /\ UnitOf(hs_out) = <<"T","B">>

----------------------------------------------------------------------------
(* Properties of get_file_emoji *)

\* Position of the last '.', 0 when there is none.
LastDot(name) ==
    IF \A i \in 1..Len(name) : name[i] # "." THEN 0
    ELSE CHOOSE i \in 1..Len(name) :
            name[i] = "." /\ \A j \in (i + 1)..Len(name) : name[j] # "."

\* What follows the last '.', empty when there is none.
AfterLastDot(name) ==
    IF LastDot(name) = 0 THEN <<>>
    ELSE SubSeq(name, LastDot(name) + 1, Len(name))

EqualIgnoringCase(a, b) ==
    /\ Len(a) = Len(b)
    /\ \A i \in 1..Len(a) : LowerChar(a[i]) = LowerChar(b[i])

TableKeys == {p[1] : p \in emoji_map}

\* C9: the glyph depends only on the lower-cased text after the last '.':
\* names whose extensions differ only in case get the same glyph, and a name
\* with no '.', an empty extension or an extension outside the table gets
\* the generic document glyph.
C9_GlyphDependsOnLoweredExtension ==
    em_pc = "done" =>
        /\ \A other \in EmojiNames :
              EqualIgnoringCase(AfterLastDot(other), AfterLastDot(em_name))
                  => get_file_emoji(other) = em_out
        /\ (\A k \in TableKeys : ~EqualIgnoringCase(AfterLastDot(em_name), k))
              => em_out = DefaultGlyph

\* An upper-case extension of the table has been resolved to its glyph.
C9_Witness ==
    /\ em_pc = "done"
    /\ em_name = <<"s", ".", "C">>
    /\ em_out = <<"U+1F4BE">>

----------------------------------------------------------------------------
(* Properties of a whole invocation *)

\* main has returned after printing the table.
Rendered == pc = "exited" /\ "print" \in ran

\* The scan has returned its DirContents.
Scanned == pc = "print" \/ Rendered

EntrySet == {dir_entries[i] : i \in 1..Len(dir_entries)}
DataRowIndexes == 3..Len(stdout)

\* What the file system reports of an entry, read off st_mode directly.
ReportsDirectory(e) == (e.mode \div 4096) % 16 = 4
ReportsRegularFile(e) == (e.mode \div 4096) % 16 = 8
AnyExecuteBitSet(e) ==
    (e.mode \div 64) % 2 = 1 \/ (e.mode \div 8) % 2 = 1 \/ e.mode % 2 = 1

\* Metadata, modification time and name can all be read.
Readable(e) ==
    /\ e.io = "ok" /\ e.meta = "ok" /\ e.mtime.kind = "ok"
    /\ \A i \in 1..Len(e.name) : e.name[i] # "<FF>"

\* How often each vector of the Listing holds the name.
Occurrences(v, name) == Cardinality({i \in 1..Len(v) : v[i].name = name})
ListedAs(e) ==
    [files |-> Occurrences(files, e.name),
     directories |-> Occurrences(directories, e.name),
     executables |-> Occurrences(executables, e.name)]
Once(kind) ==
    [k \in {"files", "directories", "executables"} |-> IF k = kind THEN 1 ELSE 0]
Nowhere == Once("none")

\* The name a data row shows, without the '/' print puts after a directory.
RowName(row) ==
    IF row.block = "directories"
    THEN SubSeq(row.cells[3], 1, Len(row.cells[3]) - 1)
    ELSE row.cells[3]
RowsOf(name) == {i \in DataRowIndexes : RowName(stdout[i]) = name}

\* C1: the exit status is zero exactly when the target resolves to a
\* directory and the table is rendered; every failure path ends non-zero.
C1_ExitZeroIffRendered ==
    pc = "exited" => (exit_code = 0 <=> (TargetIsDir(args) /\ Rendered))

\* C2: an entry whose metadata, modification time or name cannot be read is
\* dropped without aborting: the scan goes on, the table is rendered, every
\* remaining readable entry is listed and no error is shown.
C2_UnreadableEntriesAreDropped ==
    (pc = "exited" /\ TargetIsDir(args)) =>
        /\ Rendered
        /\ stderr = <<>>
        /\ \A e \in EntrySet :
              (Readable(e) /\ (ReportsDirectory(e) \/ ReportsRegularFile(e)))
                  => RowsOf(e.name) # {}

\* C3 as claimed: every readable entry is classified into exactly one kind,
\* Directory for a directory, Executable for a regular file with an execute
\* bit, File otherwise, a symlink, device or socket included.
C3_EveryReadableEntryHasAKind ==
    Scanned => \A e \in EntrySet : Readable(e) =>
        ListedAs(e) = Once(IF ReportsDirectory(e) THEN "directories"
                           ELSE IF ReportsRegularFile(e) /\ AnyExecuteBitSet(e)
                                THEN "executables"
                           ELSE "files")

\* C3 as amended: every readable directory or regular file is classified
\* into exactly one kind (Directory; Executable for a regular file with an
\* execute bit; File for any other regular file), and a readable entry that
\* is neither a directory nor a regular file is in no part of the Listing.
C3_DirectoriesAndRegularFilesHaveAKind ==
    Scanned => \A e \in EntrySet : Readable(e) =>
        ListedAs(e) = IF ReportsDirectory(e) THEN Once("directories")
                      ELSE IF ReportsRegularFile(e) /\ AnyExecuteBitSet(e)
                           THEN Once("executables")
                      ELSE IF ReportsRegularFile(e) THEN Once("files")
                      ELSE Nowhere

\* A scan that met a readable symbolic link beside a regular file has
\* returned: the file is listed and the link is not.
C3_Witness ==
    /\ Rendered
    /\ \E e \in EntrySet :
          /\ Readable(e) /\ ~ReportsDirectory(e) /\ ~ReportsRegularFile(e)
          /\ ListedAs(e) = Nowhere
    /\ Len(files) > 0

\* C4: in a rendered table the dashes of the separator row are, in each of
\* the three columns, at least as many as the longest value of that column
\* over the header and all data rows.
C4_SeparatorCoversLongestValue ==
    Rendered => \A c \in 1..3 : \A i \in 1..Len(stdout) :
        Len(stdout[2].cells[c]) >= Len(stdout[i].cells[c])

\* The enumeration orders of the entries the directory holds.
Reorderings(q) ==
    {[i \in 1..Len(q) |-> q[p[i]]] : p \in Permutations(1..Len(q))}

\* What scan, sort and print write for an enumeration.
RowsFor(q) ==
    LET r == extract_files_from_path(q)
    IN  IF r.panicked THEN <<>> ELSE PrintRows(r.dc)

\* C5: the rows printed depend on the set of entries only: any other
\* enumeration order of the same entries prints the same rows in the same
\* order.
C5_OrderIndependentOfEnumeration ==
    Rendered => \A q \in Reorderings(dir_entries) : RowsFor(q) = stdout

\* The text of a diagnostic line around the path it names.
Wording(line) == <<line[1], line[3]>>

\* C6: when the target does not resolve or is no directory, neither the
\* scanner nor the renderer runs, nothing is written to standard output,
\* one line is written to standard error, it holds the path as the user
\* gave it, and the two cases are worded differently.
C6_FailureWritesOneDiagnostic ==
    (pc = "exited" /\ ~TargetIsDir(args)) =>
        /\ ran = {}
        /\ stdout = <<>>
        /\ Len(stderr) = 1
        /\ stderr[1][2] = DirPath(args)
        /\ Len(args) > 1 => stderr[1][2] = args[2]
        /\ canonicalize(DirPath(args)).ok
              => Wording(stderr[1]) # Wording(DoesNotExistLine(DirPath(args)))
        /\ ~canonicalize(DirPath(args)).ok
              => Wording(stderr[1]) # Wording(NotADirectoryLine(DirPath(args)))

\* An invocation on a symbolic link to a regular file has ended with its
\* one diagnostic line.
C6_Witness ==
    /\ pc = "exited"
    /\ args = <<"custom-ls", "flink">>
    /\ stderr = << NotADirectoryLine("flink") >>
    /\ stdout = <<>>

\* C8: a regular file with any execute bit set is printed with the
\* lightning-bolt glyph whatever its extension, in the executables block
\* and never in the files block.
C8_ExecutableGetsBolt ==
    Rendered => \A e \in EntrySet :
        (Readable(e) /\ ReportsRegularFile(e) /\ AnyExecuteBitSet(e)) =>
            /\ Cardinality(RowsOf(e.name)) = 1
            /\ \A i \in RowsOf(e.name) :
                  /\ stdout[i].block = "executables"
                  /\ SubSeq(stdout[i].cells[1], 1, 1) = <<"U+26A1">>

\* An executable whose extension is in the table has been printed with the
\* bolt, not with the glyph of its extension.
C8_Witness ==
    /\ Rendered
    /\ \E i \in DataRowIndexes :
          /\ stdout[i].block = "executables"
          /\ stdout[i].cells[3] = <<"r","u","n",".","t","x","t">>
          /\ SubSeq(stdout[i].cells[1], 1, 1) = <<"U+26A1">>
          /\ get_file_emoji(stdout[i].cells[3]) = <<"U+1F4DD">>

BlockRank(b) ==
    CASE b = "directories" -> 1 [] b = "files" -> 2 [] b = "executables" -> 3
      [] OTHER -> 0

\* The scanner accepts a readable directory or regular file.
Accepted(e) == Readable(e) /\ (ReportsDirectory(e) \/ ReportsRegularFile(e))

\* C10: the data rows are three contiguous blocks, directories, files and
\* executables in that order; inside a block the lower-cased names never
\* decrease; every accepted entry is printed once, in one block.
C10_BlocksInOrderAndSorted ==
    Rendered =>
        /\ \A i \in DataRowIndexes : BlockRank(stdout[i].block) > 0
        /\ \A i, j \in DataRowIndexes : i < j =>
              /\ BlockRank(stdout[i].block) <= BlockRank(stdout[j].block)
              /\ stdout[i].block = stdout[j].block =>
                    ~StrLess(to_lowercase(RowName(stdout[j])),
                             to_lowercase(RowName(stdout[i])))
        /\ \A e \in EntrySet : Accepted(e) => Cardinality(RowsOf(e.name)) = 1
        /\ Cardinality(DataRowIndexes) = Cardinality({e \in EntrySet : Accepted(e)})

\* A table with a directory row, then "a" before "B.TXT" in the files block.
C10_Witness ==
    /\ Rendered
    /\ Len(stdout) = 5
    /\ stdout[3].block = "directories"
    /\ stdout[4].block = "files" /\ stdout[4].cells[3] = <<"a">>
    /\ stdout[5].block = "files" /\ stdout[5].cells[3] = <<"B",".","T","X","T">>

====
